---- MODULE Spec2Model ----
(***************************************************************************)
(* Model of AgentFi-backend/index.js: an express server with two handlers, *)
(* POST /api/chat (a reasoning loop between a Gemini chat object and a     *)
(* relay of tool calls to the Go ADK server) and GET /api/dashboard (two   *)
(* fixed relay calls reshaped into one summary object).                    *)
(*                                                                         *)
(* Node runs every handler on one event loop: a handler runs without       *)
(* interruption from one await to the next.  Every action below is one     *)
(* such segment: the arrival of a request up to its first await, or the    *)
(* completion of an awaited call followed by the code that runs up to the  *)
(* next await or the response.                                             *)
(*                                                                         *)
(* JavaScript strings are TLA+ strings (TLC applies Len, SubSeq and \o to  *)
(* them).  A value that may be undefined is a sequence of length 0         *)
(* (undefined) or 1 (the value).                                           *)
(***************************************************************************)
EXTENDS Integers, Sequences, FiniteSets, TLC

VARIABLES
    chatSessions,   \* the Map sessionId -> chat object (a function on the keys present)
    chats,          \* the chat objects ever started: chats[c] is the history of object c
    reqs            \* the requests received so far, in order of arrival

vars == <<chatSessions, chats, reqs>>

----------------------------------------------------------------------------
(* Bounds *)

MaxReq == 2          \* requests received in one behaviour of Spec
MaxChats == 1        \* requests received in one behaviour of SpecChat
MaxRelays == 3       \* tool calls the model requests in one behaviour of SpecChat
MaxToolCalls == 1    \* tool calls the model requests in one behaviour of Spec
MaxAssets == 2       \* entries of assetValues in a well-formed net worth document
MaxDashboards == 1   \* requests received in one behaviour of SpecDashboard

----------------------------------------------------------------------------
(* JavaScript values and string functions *)

\* req.body.message / req.body.sessionId / req.query.sessionId when absent
Undefined == "<undefined>"

\* !v for a string or undefined
Falsy(v) == v = Undefined \/ v = ""

\* String.prototype.startsWith
StartsWith(s, p) == Len(s) >= Len(p) /\ SubSeq(s, 1, Len(p)) = p

\* String.prototype.indexOf, 1-based; 0 when p does not occur in s
IndexOf(s, p) ==
    LET hits == {i \in 1..(Len(s) - Len(p) + 1) : SubSeq(s, i, i + Len(p) - 1) = p}
    IN  IF hits = {} THEN 0 ELSE CHOOSE i \in hits : \A j \in hits : i <= j

\* String.prototype.replace(pattern: string, replacement): first occurrence only
Replace(s, p, r) ==
    LET i == IndexOf(s, p)
    IN  IF i = 0 THEN s
        ELSE SubSeq(s, 1, i - 1) \o r \o SubSeq(s, i + Len(p), Len(s))

\* A TLA+ string holds no backquote: in every string of this module the
\* apostrophe stands for the backquote, so Fence is the text of a code fence.
Fence == "'''"
FenceJson == "'''json\n"

\* s.replace(/```json\n|```/g, ""): scanning from the left, at each position
\* the first alternative that matches is removed
RECURSIVE ReplaceFences(_)
ReplaceFences(s) ==
    IF s = "" THEN ""
    ELSE IF StartsWith(s, FenceJson)
    THEN ReplaceFences(SubSeq(s, Len(FenceJson) + 1, Len(s)))
    ELSE IF StartsWith(s, Fence)
    THEN ReplaceFences(SubSeq(s, Len(Fence) + 1, Len(s)))
    ELSE SubSeq(s, 1, 1) \o ReplaceFences(SubSeq(s, 2, Len(s)))

WhiteSpace == {" ", "\n", "\t", "\r"}

RECURSIVE TrimStart(_)
TrimStart(s) ==
    IF s # "" /\ SubSeq(s, 1, 1) \in WhiteSpace
    THEN TrimStart(SubSeq(s, 2, Len(s))) ELSE s

RECURSIVE TrimEnd(_)
TrimEnd(s) ==
    IF s # "" /\ SubSeq(s, Len(s), Len(s)) \in WhiteSpace
    THEN TrimEnd(SubSeq(s, 1, Len(s) - 1)) ELSE s

\* String.prototype.trim
Trim(s) == TrimEnd(TrimStart(s))

\* cleanedReply with a string pattern in place of the global regular
\* expression: only the first plain fence is removed
cleanedReplyFirstFence(finalReplyText) == Trim(Replace(finalReplyText, Fence, ""))

\* finalReplyText.replace(/```json\n|```/g, "").trim()
cleanedReply(finalReplyText) == Trim(ReplaceFences(finalReplyText))

\* The digits parseInt reads: the value of a digit is its index minus one,
\* and a letter counts in either case
Digits == "0123456789abcdefghijklmnopqrstuvwxyz"
UpperDigits == "0123456789ABCDEFGHIJKLMNOPQRSTUVWXYZ"
DigitTable ==
    [c \in {SubSeq(Digits, i, i) : i \in 1..Len(Digits)}
            \cup {SubSeq(UpperDigits, i, i) : i \in 1..Len(UpperDigits)} |->
        IF IndexOf(Digits, c) > 0 THEN IndexOf(Digits, c) - 1
        ELSE IndexOf(UpperDigits, c) - 1]

\* the value of character c as a digit in the given radix, or -1
DigitValue(c, radix) ==
    IF c \in DOMAIN DigitTable /\ DigitTable[c] < radix THEN DigitTable[c] ELSE -1

\* the number read from the longest prefix of s made of digits, given the
\* number acc read so far; seen tells whether a digit has been read
RECURSIVE ParseDigits(_, _, _, _)
ParseDigits(s, radix, acc, seen) ==
    IF s # "" /\ DigitValue(SubSeq(s, 1, 1), radix) >= 0
    THEN ParseDigits(SubSeq(s, 2, Len(s)), radix,
                     acc * radix + DigitValue(SubSeq(s, 1, 1), radix), TRUE)
    ELSE [nan |-> ~seen, n |-> acc]

\* parseInt(string) with no radix argument: leading white space is skipped, a
\* sign is read, a 0x or 0X prefix selects radix 16, then digits are read up to
\* the first character that is none; NaN when no digit is read
parseInt(string) ==
    LET t == TrimStart(string)
        neg == StartsWith(t, "-")
        u == IF StartsWith(t, "-") \/ StartsWith(t, "+") THEN SubSeq(t, 2, Len(t)) ELSE t
        hex == StartsWith(u, "0x") \/ StartsWith(u, "0X")
        d == IF hex THEN ParseDigits(SubSeq(u, 3, Len(u)), 16, 0, FALSE)
                    ELSE ParseDigits(u, 10, 0, FALSE)
    IN  IF d.nan THEN [nan |-> TRUE, n |-> 0]
        ELSE [nan |-> FALSE, n |-> IF neg THEN 0 - d.n ELSE d.n]

----------------------------------------------------------------------------
(* The chat objects of the Gemini SDK *)

\* one entry of a chat object's history: a user message (text), a model
\* response (text and functionCalls) or a list of function responses
Content(role, text, calls, responses) ==
    [role |-> role, text |-> text, functionCalls |-> calls,
     functionResponses |-> responses]

systemInstruction == Content("user", "You are an expert financial advisor named Fi Agent.", <<>>, <<>>)

\* model.startChat({ history: [systemInstruction] })
startChat == <<systemInstruction>>

----------------------------------------------------------------------------
(* Relay calls to the Go ADK server *)

\* the body of a relay response before it has arrived
NoData == [result |-> <<>>]

\* axios.post(`${GO_ADK_URL}/mcp/stream`, {jsonrpc, id, method: 'tools/call',
\*   params: {name: toolName, arguments: {}}}, {headers: {'Mcp-Session-Id': sessionId}})
\* as issued and not yet answered
axiosPost(toolName, sessionId) ==
    [url |-> "http://localhost:8080/mcp/stream",
     method |-> "tools/call",
     name |-> toolName,
     arguments |-> "{}",
     McpSessionId |-> sessionId,
     state |-> "pending",
     data |-> NoData]

AllFulfilled(batch) == \A i \in 1..Len(batch) : batch[i].state = "ok"
AnyRejected(batch) == \E i \in 1..Len(batch) : batch[i].state = "failed"

\* PromiseAll behaving as Promise.any: fulfilled by the first success
PromiseAny(batch) ==
    IF \E i \in 1..Len(batch) : batch[i].state = "ok" THEN "fulfilled"
    ELSE IF \A i \in 1..Len(batch) : batch[i].state = "failed" THEN "rejected"
    ELSE "pending"

\* PromiseAll behaving as Promise.allSettled: fulfilled once every call has
\* completed, failed or not
PromiseAllSettled(batch) ==
    IF \A i \in 1..Len(batch) : batch[i].state # "pending" THEN "fulfilled"
    ELSE "pending"

\* the state of the promise Promise.all(toolPromises): rejected as soon as one
\* call has failed, fulfilled once every call has succeeded
PromiseAll(batch) ==
    IF AnyRejected(batch) THEN "rejected"
    ELSE IF AllFulfilled(batch) THEN "fulfilled"
    ELSE "pending"

----------------------------------------------------------------------------
(* Requests *)

\* A request and the local variables of its handler.  pc is the await the
\* handler is suspended at ("awaitModel": chat.sendMessage, "awaitTools":
\* Promise.all(toolPromises)) or "done" once the handler has returned.
\* status is 0 until a response is sent; responses counts the responses sent.
\* modelCalls and relayCalls count the calls the handler has issued, batches
\* the batches of relay calls a chat handler has issued; first,
\* seen and exchange record, for a chat request, the model's first response, the
\* history the chat object held when the first model call was served, and the
\* contents this request exchanged with the model.  cause names the step whose
\* failure the handler caught (the error object of its catch block), and
\* after is, for a chat request, the set of the requests that had been answered
\* when this one arrived; outOfOrder tells whether a relay call of the batch a
\* chat handler awaited succeeded before one the model had requested before it.
NewRequest(kind, message, sessionId) ==
    [kind |-> kind, message |-> message, sessionId |-> sessionId,
     pc |-> "start", chat |-> 0, sent |-> Content("none", "", <<>>, <<>>),
     functionCalls |-> <<>>, batch |-> <<>>,
     status |-> 0, error |-> "", reply |-> "", dashboard |-> <<>>, responses |-> 0,
     modelCalls |-> 0, relayCalls |-> 0, batches |-> 0,
     first |-> <<>>, seen |-> <<>>, exchange |-> <<>>, cause |-> "", after |-> {},
     outOfOrder |-> FALSE]

\* res.status(status).json({ error })
SendError(req, status, error) ==
    [req EXCEPT !.pc = "done", !.status = status, !.error = error,
                !.responses = @ + 1]

\* MissingInput with the test of sessionId forgotten
MissingInputMessageOnly(message, sessionId) == Falsy(message)

\* if (!message || !sessionId)
MissingInput(message, sessionId) == Falsy(message) \/ Falsy(sessionId)

\* HasSession with the lookup answering no for every key
HasSessionNever(sessions, sessionId) == FALSE

\* chatSessions.has(sessionId)
HasSession(sessions, sessionId) == sessionId \in DOMAIN sessions

\* CatchChat sending the caught error's message to the caller
CatchChatLeaks(req, error) == [SendError(req, 500, error) EXCEPT !.cause = error]

\* CatchChat logging the error and sending no response
CatchChatSilent(req, error) == [req EXCEPT !.pc = "done", !.cause = error]

\* the catch block of the chat handler: the error is logged, not sent
CatchChat(req, error) ==
    [SendError(req, 500, "An internal server error occurred.") EXCEPT !.cause = error]

\* CatchDashboard answering with an empty dashboard in place of the error
CatchDashboardDefaults(req, error) ==
    [req EXCEPT !.pc = "done", !.status = 200, !.responses = @ + 1, !.cause = error,
                !.dashboard = <<[netWorth |-> [nan |-> TRUE, n |-> 0], assets |-> <<>>,
                                 creditScore |-> [nan |-> TRUE, n |-> 0]]>>]

\* the catch block of the dashboard handler
CatchDashboard(req, error) ==
    [SendError(req, 500, "Failed to fetch dashboard data.") EXCEPT !.cause = error]

\* sendMessage holding an arriving request back while another request is
\* suspended on the same chat object, as under a lock per session
sendMessageExclusive(req, content) ==
    IF /\ req.modelCalls = 0
       /\ \E o \in 1..Len(reqs) : /\ reqs[o].chat = req.chat
                                  /\ reqs[o].pc \in {"awaitModel", "awaitTools"}
    THEN [req EXCEPT !.pc = "locked", !.sent = content]
    ELSE [req EXCEPT !.pc = "awaitModel", !.sent = content, !.modelCalls = @ + 1]

\* chat.sendMessage(content), up to the await
sendMessage(req, content) ==
    [req EXCEPT !.pc = "awaitModel", !.sent = content, !.modelCalls = @ + 1]

\* if (!functionCalls || functionCalls.length === 0) break;
LoopDone(functionCalls) == Len(functionCalls) = 0

\* toolPromises passing on the arguments of the model's request:
\* arguments: functionCall.args in place of arguments: {}
toolPromisesWithArgs(functionCalls, sessionId) ==
    [i \in 1..Len(functionCalls) |->
        [axiosPost(functionCalls[i].name, sessionId) EXCEPT
            !.arguments = functionCalls[i].args]]

\* functionCalls.map((functionCall) => axios.post(...))
toolPromises(functionCalls, sessionId) ==
    [i \in 1..Len(functionCalls) |-> axiosPost(functionCalls[i].name, sessionId)]

\* functionResponses with every entry carrying the payload of the first
\* relay call: toolResponses[0].data in place of toolResponse.data
functionResponsesFirstPayload(functionCalls, toolResponses) ==
    [i \in 1..Len(toolResponses) |->
        [name |-> functionCalls[i].name, response |-> toolResponses[1].data]]

\* toolResponses.map((toolResponse, i) => ({functionResponse:
\*   {name: functionCalls[i].name, response: toolResponse.data}}))
functionResponses(functionCalls, toolResponses) ==
    [i \in 1..Len(toolResponses) |->
        [name |-> functionCalls[i].name, response |-> toolResponses[i].data]]

\* return res.json({ reply: cleanedReply })
SendReply(req, finalReplyText) ==
    [req EXCEPT !.pc = "done", !.status = 200,
                !.reply = cleanedReply(finalReplyText), !.responses = @ + 1]

----------------------------------------------------------------------------
(* The dashboard handler's parsing *)

\* A value that may be undefined: <<>> is undefined, <<v>> is v
Has(m) == Len(m) > 0
Val(m) == m[1]

\* toolResponse.data.result.content[0].text throws a TypeError
ContentTextThrows(data) ==
    \/ ~Has(data.result)
    \/ ~Has(Val(data.result).content)
    \/ Len(Val(Val(data.result).content)) = 0

\* toolResponse.data.result.content[0].text, which may be undefined
ContentText(data) == Val(Val(data.result).content)[1].text

\* JSON.parse(text): a text is modelled by the document it encodes, or by
\* valid = FALSE when it is no JSON text; JSON.parse(undefined) throws too
JSONparseThrows(text) == ~Has(text) \/ ~Val(text).valid
JSONparse(text) == Val(text).doc

\* parseInt(netWorthRaw.netWorthResponse.totalNetWorthValue.units)
netWorthValueThrows(netWorthRaw) ==
    \/ ~Has(netWorthRaw.netWorthResponse)
    \/ ~Has(Val(netWorthRaw.netWorthResponse).totalNetWorthValue)
netWorthValue(netWorthRaw) ==
    parseInt(Val(Val(netWorthRaw.netWorthResponse).totalNetWorthValue).units)

\* NotLiability with the filter keeping every entry
NotLiabilityAlways(item) == TRUE

\* item => !item.netWorthAttribute.startsWith("LIABILITY_TYPE")
NotLiability(item) == ~StartsWith(Val(item.netWorthAttribute), "LIABILITY_TYPE")

\* TypeLabel with every underscore replaced, as by replace(/_/g, " ")
RECURSIVE TypeLabelEveryUnderscore(_)
TypeLabelEveryUnderscore(netWorthAttribute) ==
    LET label == Replace(netWorthAttribute, "ASSET_TYPE_", "")
    IN  IF IndexOf(label, "_") = 0 THEN label
        ELSE TypeLabelEveryUnderscore(Replace(label, "_", " "))

\* asset.netWorthAttribute.replace("ASSET_TYPE_", "").replace("_", " ")
TypeLabel(netWorthAttribute) ==
    Replace(Replace(netWorthAttribute, "ASSET_TYPE_", ""), "_", " ")

\* netWorthRaw.netWorthResponse.assetValues.filter(...).map(...): the filter
\* reads netWorthAttribute of every entry, the map reads value of the entries kept
assetsArrayThrows(netWorthRaw) ==
    LET assetValues == Val(netWorthRaw.netWorthResponse).assetValues
    IN  \/ ~Has(assetValues)
        \/ \E i \in 1..Len(Val(assetValues)) : ~Has(Val(assetValues)[i].netWorthAttribute)
        \/ \E i \in 1..Len(Val(assetValues)) :
              NotLiability(Val(assetValues)[i]) /\ ~Has(Val(assetValues)[i].value)
assetsArray(netWorthRaw) ==
    LET kept == SelectSeq(Val(Val(netWorthRaw.netWorthResponse).assetValues), NotLiability)
    IN  [i \in 1..Len(kept) |->
            [type |-> TypeLabel(Val(kept[i].netWorthAttribute)),
             value |-> parseInt(Val(kept[i].value).units)]]

\* parseInt(creditReportRaw.creditReports[0].creditReportData.score.bureauScore)
creditScoreValueThrows(creditReportRaw) ==
    \/ ~Has(creditReportRaw.creditReports)
    \/ Len(Val(creditReportRaw.creditReports)) = 0
    \/ ~Has(Val(creditReportRaw.creditReports)[1].creditReportData)
    \/ ~Has(Val(Val(creditReportRaw.creditReports)[1].creditReportData).score)
creditScoreValue(creditReportRaw) ==
    parseInt(Val(Val(Val(creditReportRaw.creditReports)[1].creditReportData).score).bureauScore)

\* some statement between the await and res.json(dashboardData) throws
ParsingThrows(toolResponses) ==
    \/ ContentTextThrows(toolResponses[1].data)
    \/ JSONparseThrows(ContentText(toolResponses[1].data))
    \/ ContentTextThrows(toolResponses[2].data)
    \/ JSONparseThrows(ContentText(toolResponses[2].data))
    \/ netWorthValueThrows(JSONparse(ContentText(toolResponses[1].data)))
    \/ assetsArrayThrows(JSONparse(ContentText(toolResponses[1].data)))
    \/ creditScoreValueThrows(JSONparse(ContentText(toolResponses[2].data)))

\* const dashboardData = { netWorth, assets, creditScore }
dashboardData(toolResponses) ==
    LET netWorthRaw == JSONparse(ContentText(toolResponses[1].data))
        creditReportRaw == JSONparse(ContentText(toolResponses[2].data))
    IN  [netWorth |-> netWorthValue(netWorthRaw),
         assets |-> assetsArray(netWorthRaw),
         creditScore |-> creditScoreValue(creditReportRaw)]

\* res.json(dashboardData)
SendDashboard(req, data) ==
    [req EXCEPT !.pc = "done", !.status = 200, !.dashboard = <<data>>,
                !.responses = @ + 1]

\* toolsToFetch naming another tool of the declared ones
toolsToFetchOther == <<"fetch_net_worth", "fetch_epf_details">>

\* const toolsToFetch = ['fetch_net_worth', 'fetch_credit_report']
toolsToFetch == <<"fetch_net_worth", "fetch_credit_report">>

\* toolsToFetch.map(toolName => axios.post(...))
dashboardToolPromises(sessionId) ==
    [i \in 1..Len(toolsToFetch) |-> axiosPost(toolsToFetch[i], sessionId)]

----------------------------------------------------------------------------
(* The environment: callers, the model and the tool service *)

SessionIds == {"s1", "s2"}

\* what a caller may send as sessionId, and as message
SessionIdValues == SessionIds \cup {""}
MessageValues == {"What is my net worth?", Undefined}

\* the texts the model answers with
Texts == {"Your net worth is 171.", "'''json\n{\"type\": \"chart\"}\n'''\n"}

\* the tool calls the model requests
FunctionCallValues ==
    {[name |-> "fetch_net_worth", args |-> "{}"],
     [name |-> "fetch_credit_report", args |-> "{\"months\": 6}"]}

\* result.response of a model call: malformed when functionCalls() throws
ModelResponse(malformed, text, functionCalls) ==
    [malformed |-> malformed, text |-> text, functionCalls |-> functionCalls]

\* one of them
SomeTexts == {"'''json\n{\"type\": \"chart\"}\n'''\n"}

\* the responses of the model, which answers with one of texts or requests up
\* to n tool calls
ModelResponses(texts, n) ==
    {ModelResponse(FALSE, t, <<>>) : t \in texts}
    \cup {ModelResponse(TRUE, "", <<>>)}
    \cup UNION {{ModelResponse(FALSE, "", c) : c \in [1..k -> FunctionCallValues]}
                : k \in 1..n}

\* documents of the tool service and the response bodies that carry them
Units(u) == [units |-> u]
Entry(attr, u) == [netWorthAttribute |-> <<attr>>, value |-> <<Units(u)>>]
Doc(netWorthResponse, creditReports) ==
    [netWorthResponse |-> netWorthResponse, creditReports |-> creditReports]
NetWorthResponse(total, assetValues) ==
    [totalNetWorthValue |-> total, assetValues |-> assetValues]
NetWorthDoc(total, entries) ==
    Doc(<<NetWorthResponse(<<Units(total)>>, <<entries>>)>>, <<>>)
CreditReport(score) == [creditReportData |-> <<[score |-> score]>>]
CreditDoc(bureauScore) ==
    Doc(<<>>, << <<CreditReport(<<[bureauScore |-> bureauScore]>>)>> >>)
JsonText(doc) == [valid |-> TRUE, doc |-> doc]
NotJson == [valid |-> FALSE, doc |-> Doc(<<>>, <<>>)]
Body(text) == [result |-> <<[content |-> << <<[text |-> text]>> >>]>>]

MutualFund == Entry("ASSET_TYPE_MUTUAL_FUND", "100")
Epf == Entry("ASSET_TYPE_EPF", "21.5")
HomeLoan == Entry("LIABILITY_TYPE_HOME_LOAN", "50")
EntryValues == {MutualFund, Epf, HomeLoan}

\* bodies missing a field that both parsings read
BrokenBodies ==
    {NoData,
     [result |-> <<[content |-> <<>>]>>],
     [result |-> <<[content |-> << <<>> >>]>>],
     Body(<<>>),
     Body(<<NotJson>>)}

WellFormedNetWorth ==
    {Body(<<JsonText(NetWorthDoc("171", e))>>) :
        e \in UNION {[1..k -> EntryValues] : k \in 0..MaxAssets}}

BrokenNetWorth ==
    {Body(<<JsonText(Doc(<<>>, <<>>))>>),
     Body(<<JsonText(Doc(<<NetWorthResponse(<<>>, << <<MutualFund>> >>)>>, <<>>))>>),
     Body(<<JsonText(Doc(<<NetWorthResponse(<<Units("171")>>, <<>>)>>, <<>>))>>),
     Body(<<JsonText(NetWorthDoc("171",
            <<MutualFund, [netWorthAttribute |-> <<>>, value |-> <<Units("5")>>]>>))>>),
     Body(<<JsonText(NetWorthDoc("171",
            <<[netWorthAttribute |-> <<"ASSET_TYPE_EPF">>, value |-> <<>>], HomeLoan>>))>>),
     Body(<<JsonText(NetWorthDoc("171",
            <<MutualFund, [netWorthAttribute |-> <<"LIABILITY_TYPE_HOME_LOAN">>, value |-> <<>>]>>))>>)}

WellFormedCredit == {Body(<<JsonText(CreditDoc(s))>>) : s \in {"746", "0x2f"}}

BrokenCredit ==
    {Body(<<JsonText(Doc(<<>>, << <<>> >>))>>),
     Body(<<JsonText(Doc(<<>>, << <<[creditReportData |-> <<>>]>> >>))>>),
     Body(<<JsonText(Doc(<<>>, << <<CreditReport(<<>>)>> >>))>>)}

\* the bodies the tool service answers a call of the given tool with
ToolData(toolName) ==
    IF toolName = "fetch_net_worth"
    THEN WellFormedNetWorth \cup BrokenNetWorth \cup BrokenBodies
    ELSE WellFormedCredit \cup BrokenCredit \cup BrokenBodies

\* one well-formed body for each tool
SomeToolData(toolName) ==
    IF toolName = "fetch_net_worth"
    THEN {Body(<<JsonText(NetWorthDoc("171", <<MutualFund, HomeLoan>>))>>)}
    ELSE {Body(<<JsonText(CreditDoc("746"))>>)}

----------------------------------------------------------------------------
(* The handlers *)

\* the requests that have been answered
Answered(rs) == {r \in 1..Len(rs) : rs[r].responses > 0}

Init ==
    /\ chatSessions = <<>>
    /\ chats = <<>>
    /\ reqs = <<>>

\* POST /api/chat arrives: the handler runs to its first await, that of
\* chat.sendMessage(message), or returns 400
ChatRequest(message, sessionId) ==
    LET req == [NewRequest("chat", message, sessionId) EXCEPT !.after = Answered(reqs)]
        has == HasSession(chatSessions, sessionId)
        chat == IF has THEN chatSessions[sessionId] ELSE Len(chats) + 1
    IN  IF MissingInput(message, sessionId)
        THEN /\ reqs' = Append(reqs, SendError(req, 400, "Message and sessionId are required."))
             /\ UNCHANGED <<chatSessions, chats>>
        ELSE /\ chats' = IF has THEN chats ELSE Append(chats, startChat)
             /\ chatSessions' = IF has THEN chatSessions
                                ELSE (sessionId :> chat) @@ chatSessions
             /\ reqs' = Append(reqs, sendMessage([req EXCEPT !.chat = chat],
                                                 Content("user", message, <<>>, <<>>)))

\* the code that runs when a model call of request r has returned response:
\* the loop's test, then either the reply or the next batch of relay calls
AfterModel(req, response) ==
    IF response.malformed THEN CatchChat(req, "malformed model response")
    ELSE IF LoopDone(response.functionCalls) THEN SendReply(req, response.text)
    ELSE [req EXCEPT !.pc = "awaitTools",
                     !.functionCalls = response.functionCalls,
                     !.batch = toolPromises(response.functionCalls, req.sessionId),
                     !.relayCalls = @ + Len(response.functionCalls),
                     !.batches = @ + 1,
                     !.outOfOrder = FALSE]

\* The chat object serves the pending sendMessage of request r: the model
\* answers the history followed by the content sent, the chat object appends
\* both to its history, and the handler resumes.
ModelRespond(r, response) ==
    LET req == reqs[r]
        model == Content("model", response.text, response.functionCalls, <<>>)
        noted == [req EXCEPT
                    !.first = IF req.modelCalls = 1 THEN <<response>> ELSE @,
                    !.seen = IF req.modelCalls = 1 THEN <<chats[req.chat]>> ELSE @,
                    !.exchange = IF response.malformed THEN @ ELSE @ \o <<req.sent, model>>]
    IN  /\ req.pc = "awaitModel"
        /\ chats' = IF response.malformed THEN chats
                     ELSE [chats EXCEPT ![req.chat] = @ \o <<req.sent, model>>]
        /\ reqs' = [reqs EXCEPT ![r] = AfterModel(noted, response)]
        /\ UNCHANGED chatSessions

\* the pending sendMessage of request r rejects
ModelFail(r) ==
    /\ reqs[r].pc = "awaitModel"
    /\ reqs' = [reqs EXCEPT ![r] = CatchChat(@, "model call failed")]
    /\ UNCHANGED <<chatSessions, chats>>

\* GET /api/dashboard arrives: the handler runs to await Promise.all, or
\* returns 400
DashboardRequest(sessionId) ==
    LET req == NewRequest("dashboard", Undefined, sessionId)
    IN  /\ reqs' = Append(reqs,
                IF Falsy(sessionId)
                THEN SendError(req, 400, "sessionId is required.")
                ELSE [req EXCEPT !.pc = "awaitTools",
                                 !.batch = dashboardToolPromises(sessionId),
                                 !.relayCalls = @ + Len(toolsToFetch)])
        /\ UNCHANGED <<chatSessions, chats>>

\* the code that runs when Promise.all(toolPromises) has settled
AfterTools(req) ==
    IF PromiseAll(req.batch) = "rejected"
    THEN (IF req.kind = "chat" THEN CatchChat(req, "relay call failed")
                               ELSE CatchDashboard(req, "relay call failed"))
    ELSE IF req.kind = "chat"
    THEN sendMessage(req, Content("function", "", <<>>,
                                  functionResponses(req.functionCalls, req.batch)))
    ELSE IF ParsingThrows(req.batch) THEN CatchDashboard(req, "unexpected shape")
    ELSE SendDashboard(req, dashboardData(req.batch))

\* Resume with the handler run again at every completion of a relay call of a
\* settled batch, the handler having returned or not
ResumeOnEveryCompletion(req) ==
    IF PromiseAll(req.batch) # "pending" THEN AfterTools(req) ELSE req

\* Resume with the handler resuming at the first completion of a relay call,
\* as after Promise.race
ResumeAtFirstCompletion(req) ==
    IF req.pc = "awaitTools" THEN AfterTools(req) ELSE req

\* the handler of a request whose relay call has just completed: it resumes
\* if it is awaiting Promise.all(toolPromises) and that promise has settled
Resume(req) ==
    IF req.pc = "awaitTools" /\ PromiseAll(req.batch) # "pending"
    THEN AfterTools(req) ELSE req

\* relay call i of the batch a chat handler awaits completes while a call the
\* model requested before it is still pending
OutOfOrder(req, i) ==
    /\ req.kind = "chat"
    /\ req.pc = "awaitTools"
    /\ \E j \in 1..(i - 1) : req.batch[j].state = "pending"

\* relay call i of request r is answered with body data
RelayOk(r, i, data) ==
    /\ reqs[r].batch[i].state = "pending"
    /\ reqs' = [reqs EXCEPT ![r] =
            Resume([@ EXCEPT !.batch[i].state = "ok", !.batch[i].data = data,
                             !.outOfOrder = @ \/ OutOfOrder(reqs[r], i)])]
    /\ UNCHANGED <<chatSessions, chats>>

\* relay call i of request r fails
RelayFail(r, i) ==
    /\ reqs[r].batch[i].state = "pending"
    /\ reqs' = [reqs EXCEPT ![r] = Resume([@ EXCEPT !.batch[i].state = "failed"])]
    /\ UNCHANGED <<chatSessions, chats>>

\* the number of tool calls the model has requested
RECURSIVE Requested(_)
Requested(rs) ==
    IF rs = <<>> THEN 0
    ELSE (IF Head(rs).kind = "chat" THEN Head(rs).relayCalls ELSE 0) + Requested(Tail(rs))

\* The server: requests of both kinds arrive and are handled concurrently,
\* with one message, one text of the model and few tool calls
Next ==
    \/ /\ Len(reqs) < MaxReq
       /\ \E sessionId \in SessionIdValues :
             ChatRequest("What is my net worth?", sessionId)
    \/ /\ Len(reqs) < MaxReq
       /\ \E sessionId \in {"s2", ""} : DashboardRequest(sessionId)
    \/ \E r \in 1..Len(reqs) :
          \E response \in ModelResponses(SomeTexts, MaxToolCalls - Requested(reqs)) :
             ModelRespond(r, response)
    \/ \E r \in 1..Len(reqs) : ModelFail(r)
    \/ \E r \in 1..Len(reqs) : \E i \in 1..Len(reqs[r].batch) :
          \E data \in SomeToolData(reqs[r].batch[i].name) : RelayOk(r, i, data)
    \/ \E r \in 1..Len(reqs) : \E i \in 1..Len(reqs[r].batch) : RelayFail(r, i)

Spec == Init /\ [][Next]_vars

\* The chat handler alone, with every message, every text of the model and
\* more tool calls
NextChat ==
    \/ /\ Len(reqs) < MaxChats
       /\ \E message \in MessageValues, sessionId \in SessionIdValues :
             ChatRequest(message, sessionId)
    \/ \E r \in 1..Len(reqs) :
          \E response \in ModelResponses(Texts, MaxRelays - Requested(reqs)) :
             ModelRespond(r, response)
    \/ \E r \in 1..Len(reqs) : ModelFail(r)
    \/ \E r \in 1..Len(reqs) : \E i \in 1..Len(reqs[r].batch) :
          \E data \in SomeToolData(reqs[r].batch[i].name) : RelayOk(r, i, data)
    \/ \E r \in 1..Len(reqs) : \E i \in 1..Len(reqs[r].batch) : RelayFail(r, i)

SpecChat == Init /\ [][NextChat]_vars

\* a model call or a relay call of request r completes
CompleteCall(r) ==
    /\ r \in 1..Len(reqs)
    /\ \/ \E response \in ModelResponses(SomeTexts, MaxRelays - Requested(reqs)) :
             ModelRespond(r, response)
       \/ ModelFail(r)
       \/ \E i \in 1..Len(reqs[r].batch) :
             \E data \in SomeToolData(reqs[r].batch[i].name) : RelayOk(r, i, data)
       \/ \E i \in 1..Len(reqs[r].batch) : RelayFail(r, i)

\* The chat loop: chat requests of one session, with one message and one text
\* of the model
NextLoop ==
    \/ /\ Len(reqs) < MaxChats
       /\ \E sessionId \in {"s1", ""} : ChatRequest("What is my net worth?", sessionId)
    \/ \E r \in 1..Len(reqs) : CompleteCall(r)

\* The chat loop, every call a handler issues completing eventually; the bound
\* on the tool calls makes the model answer without tool calls eventually
SpecChatFair ==
    /\ Init
    /\ [][NextLoop]_vars
    /\ \A r \in 1..MaxChats : WF_vars(CompleteCall(r))

\* The dashboard handler alone, the tool service answering with every body
\* of ToolData
NextDashboard ==
    \/ /\ Len(reqs) < MaxDashboards
       /\ \E sessionId \in {"s1", ""} : DashboardRequest(sessionId)
    \/ \E r \in 1..Len(reqs) : \E i \in 1..Len(reqs[r].batch) :
          \E data \in ToolData(reqs[r].batch[i].name) : RelayOk(r, i, data)
    \/ \E r \in 1..Len(reqs) : \E i \in 1..Len(reqs[r].batch) : RelayFail(r, i)

SpecDashboard == Init /\ [][NextDashboard]_vars

\* the type tags the tool service gives the entries of the net worth document
TagValues ==
    {"ASSET_TYPE_EPF", "ASSET_TYPE_MUTUAL_FUND", "ASSET_TYPE_A_B_C", "GOLD",
     "REAL_ESTATE", "MY_ASSET_TYPE_X", "LIABILITY_TYPE_HOME_LOAN", ""}

\* well-formed bodies whose entries carry every type tag of TagValues
LabelData(toolName) ==
    IF toolName = "fetch_net_worth"
    THEN {Body(<<JsonText(NetWorthDoc("171", e))>>) :
            e \in UNION {[1..k -> {Entry(t, "100") : t \in TagValues}] : k \in 0..MaxAssets}}
    ELSE {Body(<<JsonText(CreditDoc("746"))>>)}

\* One dashboard request, the tool service answering with the bodies of
\* LabelData
NextLabels ==
    \/ reqs = <<>> /\ DashboardRequest("s1")
    \/ \E r \in 1..Len(reqs) : \E i \in 1..Len(reqs[r].batch) :
          \E data \in LabelData(reqs[r].batch[i].name) : RelayOk(r, i, data)
    \/ \E r \in 1..Len(reqs) : \E i \in 1..Len(reqs[r].batch) : RelayFail(r, i)

SpecLabels == Init /\ [][NextLabels]_vars

----------------------------------------------------------------------------
(* Properties of the chat handler *)

ChatIds == {r \in 1..Len(reqs) : reqs[r].kind = "chat"}
DashboardIds == {r \in 1..Len(reqs) : reqs[r].kind = "dashboard"}

\* the request carries a message and a sessionId
BothPresent(r) == ~Falsy(reqs[r].message) /\ ~Falsy(reqs[r].sessionId)

\* the number of batches of relay calls the chat handlers have issued
RECURSIVE Batches(_)
Batches(rs) == IF rs = <<>> THEN 0 ELSE Head(rs).batches + Batches(Tail(rs))

\* the number of tool calls requested by the model responses of an exchange
RECURSIVE RequestedIn(_)
RequestedIn(exchange) ==
    IF exchange = <<>> THEN 0
    ELSE Len(Head(exchange).functionCalls) + RequestedIn(Tail(exchange))

\* the number of lists of function responses among the contents of an exchange
RECURSIVE FunctionContents(_)
FunctionContents(exchange) ==
    IF exchange = <<>> THEN 0
    ELSE (IF Head(exchange).role = "function" THEN 1 ELSE 0)
         + FunctionContents(Tail(exchange))

\* a occurs in b, in order, other elements possibly in between
RECURSIVE IsSubsequence(_, _)
IsSubsequence(a, b) ==
    IF a = <<>> THEN TRUE
    ELSE IF b = <<>> THEN FALSE
    ELSE IF Head(a) = Head(b) THEN IsSubsequence(Tail(a), Tail(b))
    ELSE IsSubsequence(a, Tail(b))

\* t is s without its leading and trailing white space
IsTrimOf(t, s) ==
    \E i \in 1..(Len(s) + 1) : \E j \in 0..Len(s) :
        /\ t = SubSeq(s, i, j)
        /\ \A k \in 1..(i - 1) : SubSeq(s, k, k) \in WhiteSpace
        /\ \A k \in (j + 1)..Len(s) : SubSeq(s, k, k) \in WhiteSpace
        /\ t # "" => /\ SubSeq(t, 1, 1) \notin WhiteSpace
                     /\ SubSeq(t, Len(t), Len(t)) \notin WhiteSpace

\* C1: every chat request whose message or sessionId is missing (falsy) is
\* answered with status 400 and an error body, and its handler issues no
\* model call and no relay call.
C1_MissingInputRejected ==
    \A r \in ChatIds :
        (Falsy(reqs[r].message) \/ Falsy(reqs[r].sessionId)) =>
            /\ reqs[r].pc = "done"
            /\ reqs[r].status = 400
            /\ reqs[r].error # ""
            /\ reqs[r].reply = ""
            /\ reqs[r].modelCalls = 0
            /\ reqs[r].relayCalls = 0
            /\ reqs[r].batch = <<>>
            /\ reqs[r].chat = 0

\* a request with a message and an empty sessionId has been answered 400
C1_Witness ==
    \E r \in ChatIds :
        /\ ~Falsy(reqs[r].message)
        /\ Falsy(reqs[r].sessionId)
        /\ reqs[r].status = 400

\* the model's first response to request r was read and requests no tool
NoToolFirst(r) ==
    /\ Has(reqs[r].first)
    /\ ~Val(reqs[r].first).malformed
    /\ Val(reqs[r].first).functionCalls = <<>>

\* C2 as stated: when the model's first response requests no tool, the handler
\* makes exactly one model call and no relay call, the loop ends, and the reply
\* is the model's text with the code-fence markers removed and nothing else
\* changed.
C2_ReplyOnlyFencesRemoved ==
    \A r \in ChatIds :
        NoToolFirst(r) =>
            /\ reqs[r].pc = "done"
            /\ reqs[r].modelCalls = 1
            /\ reqs[r].relayCalls = 0
            /\ reqs[r].status = 200
            /\ reqs[r].reply = ReplaceFences(Val(reqs[r].first).text)

\* C2 amended: when the model's first response requests no tool, the handler
\* makes exactly one model call and no relay call, the loop ends, and it
\* answers 200 with the reply being the model's text with the code-fence
\* markers removed and then the leading and trailing white space removed.
C2_ReplyFencesRemovedAndTrimmed ==
    \A r \in ChatIds :
        NoToolFirst(r) =>
            /\ reqs[r].pc = "done"
            /\ reqs[r].modelCalls = 1
            /\ reqs[r].relayCalls = 0
            /\ reqs[r].batch = <<>>
            /\ reqs[r].status = 200
            /\ reqs[r].responses = 1
            /\ IsTrimOf(reqs[r].reply, ReplaceFences(Val(reqs[r].first).text))

\* a fenced text has been answered with a reply that is neither the text
\* nor the text without its fences
C2_Witness ==
    \E r \in ChatIds :
        /\ NoToolFirst(r)
        /\ reqs[r].status = 200
        /\ IndexOf(Val(reqs[r].first).text, Fence) > 0
        /\ reqs[r].reply # ReplaceFences(Val(reqs[r].first).text)

\* the tool calls requested by the last response of an exchange that requests any
RECURSIVE LastRequested(_)
LastRequested(exchange) ==
    IF exchange = <<>> THEN <<>>
    ELSE IF exchange[Len(exchange)].functionCalls # <<>>
    THEN exchange[Len(exchange)].functionCalls
    ELSE LastRequested(SubSeq(exchange, 1, Len(exchange) - 1))

\* C3: when a response of the model requests N >= 1 tool calls, exactly N
\* relay calls are issued, one per requested call, each carrying the request's
\* sessionId as the Mcp-Session-Id header, and the next model call of the
\* request is made only after all N relay calls have completed.
C3_OneRelayPerRequestedCall ==
    \A r \in ChatIds :
        reqs[r].batches >= 1 =>
            LET requested == LastRequested(reqs[r].exchange)
            IN  /\ Len(requested) >= 1
                /\ Len(reqs[r].batch) = Len(requested)
                /\ \A i \in 1..Len(requested) :
                      /\ reqs[r].batch[i].name = requested[i].name
                      /\ reqs[r].batch[i].McpSessionId = reqs[r].sessionId
                /\ reqs[r].relayCalls = RequestedIn(reqs[r].exchange)
                /\ reqs[r].modelCalls <= reqs[r].batches + 1
                /\ reqs[r].modelCalls = reqs[r].batches + 1 =>
                      \A i \in 1..Len(reqs[r].batch) : reqs[r].batch[i].state # "pending"

\* a batch of two relay calls has completed and the next model call is made
C3_Witness ==
    \E r \in ChatIds :
        /\ reqs[r].batches = 1
        /\ Len(reqs[r].batch) = 2
        /\ reqs[r].relayCalls = 2
        /\ reqs[r].modelCalls = 2
        /\ reqs[r].pc = "awaitModel"

\* C4: when a relay call of a batch fails, no tool result of that batch is sent
\* to the model, the request makes no further model call and no further relay
\* call, nothing is retried, and the request is answered with status 500.
C4_FailedBatchAbortsRequest ==
    \A r \in ChatIds :
        AnyRejected(reqs[r].batch) =>
            /\ reqs[r].pc = "done"
            /\ reqs[r].status = 500
            /\ reqs[r].responses = 1
            /\ reqs[r].modelCalls = reqs[r].batches
            /\ reqs[r].relayCalls = RequestedIn(reqs[r].exchange)
            /\ Len(reqs[r].batch) = Len(LastRequested(reqs[r].exchange))
            /\ FunctionContents(reqs[r].exchange) = reqs[r].batches - 1
            /\ FunctionContents(chats[reqs[r].chat]) <= Batches(reqs) - 1
            /\ reqs[r].sent.role = "function" =>
                  reqs[r].sent \in {reqs[r].exchange[k] : k \in 1..Len(reqs[r].exchange)}

\* in a batch of two, one relay call has succeeded and the other has failed
C4_Witness ==
    \E r \in ChatIds :
        /\ Len(reqs[r].batch) = 2
        /\ \E i, j \in 1..2 : /\ reqs[r].batch[i].state = "ok"
                              /\ reqs[r].batch[j].state = "failed"
        /\ reqs[r].status = 500

\* C5: when a chat request arrives after another request with the same
\* sessionId has been answered, both use the same chat object of the registry,
\* no new chat is started, and the history the model sees at the second
\* request's first model call contains the whole exchange of the first, in order.
C5_SequentialRequestsShareChat ==
    /\ Len(chats) = Cardinality(DOMAIN chatSessions)
    /\ \A r2 \in ChatIds : \A r1 \in reqs[r2].after \cap ChatIds :
          (/\ BothPresent(r1) /\ BothPresent(r2)
           /\ reqs[r1].sessionId = reqs[r2].sessionId) =>
              /\ reqs[r2].chat = reqs[r1].chat
              /\ chatSessions[reqs[r2].sessionId] = reqs[r1].chat
              /\ Has(reqs[r2].seen) =>
                    IsSubsequence(reqs[r1].exchange, Val(reqs[r2].seen))

\* the first request called a tool and was answered 200, and the model has
\* served the first model call of a second request of the same session
C5_Witness ==
    \E r2 \in ChatIds : \E r1 \in reqs[r2].after \cap ChatIds :
        /\ reqs[r1].sessionId = reqs[r2].sessionId
        /\ reqs[r1].status = 200
        /\ reqs[r1].batches = 1
        /\ Len(reqs[r1].exchange) = 4
        /\ Has(reqs[r2].seen)
        /\ Len(Val(reqs[r2].seen)) = 5

\* C6: the registry only grows: the first chat request carrying both fields
\* for a sessionId creates its entry, no step removes an entry or makes it
\* another chat object, and no other step (a chat request answered 400, a
\* dashboard request, a completion of a call) changes the registry.
C6_RegistryOnlyGrows ==
    [][/\ \A s \in DOMAIN chatSessions :
             s \in DOMAIN chatSessions' /\ chatSessions'[s] = chatSessions[s]
       /\ IF Len(reqs') > Len(reqs)
             /\ reqs'[Len(reqs')].kind = "chat"
             /\ ~Falsy(reqs'[Len(reqs')].message)
             /\ ~Falsy(reqs'[Len(reqs')].sessionId)
          THEN DOMAIN chatSessions' = DOMAIN chatSessions \cup {reqs'[Len(reqs')].sessionId}
          ELSE chatSessions' = chatSessions]_vars

\* a request of a session was answered 500 and a later request of the same
\* session uses the chat object the registry still holds
C6_Witness ==
    \E r1, r2 \in ChatIds :
        /\ r1 < r2
        /\ reqs[r1].status = 500
        /\ BothPresent(r1)
        /\ reqs[r2].sessionId = reqs[r1].sessionId
        /\ reqs[r2].status = 200
        /\ chatSessions[reqs[r1].sessionId] = reqs[r1].chat
        /\ reqs[r2].chat = reqs[r1].chat

\* C7 as stated: every failure of a chat request, missing input included, is
\* answered with status 500 and one fixed error body.
C7_EveryFailureIs500 ==
    \A r \in ChatIds :
        (reqs[r].responses > 0 /\ reqs[r].status # 200) =>
            /\ reqs[r].status = 500
            /\ reqs[r].error = "An internal server error occurred."

\* C7 amended: a failed model call, a failed relay call and a malformed model
\* response are each answered with status 500 and one fixed error body that
\* does not depend on the cause; missing input is answered with status 400 and
\* a fixed error body of its own.
C7_FailuresAfterValidationAre500 ==
    \A r \in ChatIds :
        /\ (reqs[r].responses > 0 /\ reqs[r].status # 200) =>
              IF BothPresent(r)
              THEN /\ reqs[r].status = 500
                   /\ reqs[r].error = "An internal server error occurred."
                   /\ reqs[r].cause \in {"model call failed", "relay call failed",
                                          "malformed model response"}
              ELSE /\ reqs[r].status = 400
                   /\ reqs[r].error = "Message and sessionId are required."
        /\ (reqs[r].cause # "" \/ AnyRejected(reqs[r].batch)) =>
              /\ reqs[r].status = 500
              /\ reqs[r].error = "An internal server error occurred."
              /\ reqs[r].reply = ""

\* a request has failed at its second model call, after a batch of relay calls
C7_Witness ==
    \E r \in ChatIds :
        /\ reqs[r].cause = "malformed model response"
        /\ reqs[r].batches = 1
        /\ reqs[r].modelCalls = 2
        /\ reqs[r].status = 500

----------------------------------------------------------------------------
(* Properties of the dashboard handler *)

\* the body holds result.content[0].text
TextPresent(data) ==
    /\ Has(data.result)
    /\ Has(Val(data.result).content)
    /\ Len(Val(Val(data.result).content)) >= 1
    /\ Has(Val(Val(data.result).content)[1].text)

\* the text of a body that holds one is a JSON text, and the document it encodes
IsJson(data) == Val(Val(Val(data.result).content)[1].text).valid
DocOf(data) == Val(Val(Val(data.result).content)[1].text).doc

\* the entry is tagged as a liability
TaggedLiability(entry) ==
    /\ Has(entry.netWorthAttribute)
    /\ Len(Val(entry.netWorthAttribute)) >= Len("LIABILITY_TYPE")
    /\ SubSeq(Val(entry.netWorthAttribute), 1, Len("LIABILITY_TYPE")) = "LIABILITY_TYPE"

\* The net worth body lacks the text, or its document lacks netWorthResponse,
\* totalNetWorthValue, assetValues, the netWorthAttribute of an entry, or the
\* value of an entry: of any entry when liabilitiesToo, of an entry not tagged
\* as a liability otherwise.
NetWorthFieldMissing(data, liabilitiesToo) ==
    \/ ~TextPresent(data)
    \/ /\ IsJson(data)
       /\ \/ ~Has(DocOf(data).netWorthResponse)
          \/ ~Has(Val(DocOf(data).netWorthResponse).totalNetWorthValue)
          \/ ~Has(Val(DocOf(data).netWorthResponse).assetValues)
          \/ \E i \in 1..Len(Val(Val(DocOf(data).netWorthResponse).assetValues)) :
                LET entry == Val(Val(DocOf(data).netWorthResponse).assetValues)[i]
                IN  \/ ~Has(entry.netWorthAttribute)
                    \/ ~Has(entry.value) /\ (liabilitiesToo \/ ~TaggedLiability(entry))

\* the credit body lacks the text, or its document lacks creditReports[0],
\* creditReportData or score
CreditFieldMissing(data) ==
    \/ ~TextPresent(data)
    \/ /\ IsJson(data)
       /\ \/ ~Has(DocOf(data).creditReports)
          \/ Len(Val(DocOf(data).creditReports)) = 0
          \/ ~Has(Val(DocOf(data).creditReports)[1].creditReportData)
          \/ ~Has(Val(Val(DocOf(data).creditReports)[1].creditReportData).score)

\* both relay calls of a dashboard request have succeeded with well-formed bodies
WellFormedPair(batch) ==
    /\ AllFulfilled(batch)
    /\ ~NetWorthFieldMissing(batch[1].data, TRUE) /\ IsJson(batch[1].data)
    /\ ~CreditFieldMissing(batch[2].data) /\ IsJson(batch[2].data)

\* the parsed units of the entries not tagged as a liability, in order
RECURSIVE ExpectedAssetValues(_)
ExpectedAssetValues(entries) ==
    IF entries = <<>> THEN <<>>
    ELSE IF TaggedLiability(Head(entries)) THEN ExpectedAssetValues(Tail(entries))
    ELSE <<parseInt(Val(Head(entries).value).units)>> \o ExpectedAssetValues(Tail(entries))

\* C8: a dashboard request whose two relay responses are well formed is
\* answered with the assets being exactly the input entries not tagged as a
\* liability, in input order, each with the parsed integer of its units, and
\* with netWorth and creditScore the parsed integers of the total net worth
\* units and of the first credit report's bureau score.
C8_DashboardOfWellFormedInput ==
    \A r \in DashboardIds :
        (Len(reqs[r].batch) = 2 /\ WellFormedPair(reqs[r].batch)) =>
            /\ reqs[r].status = 200
            /\ Has(reqs[r].dashboard)
            /\ LET d == Val(reqs[r].dashboard)
                   netWorthResponse == Val(DocOf(reqs[r].batch[1].data).netWorthResponse)
                   report == Val(DocOf(reqs[r].batch[2].data).creditReports)[1]
               IN  /\ [i \in 1..Len(d.assets) |-> d.assets[i].value]
                        = ExpectedAssetValues(Val(netWorthResponse.assetValues))
                   /\ d.netWorth = parseInt(Val(netWorthResponse.totalNetWorthValue).units)
                   /\ d.creditScore
                        = parseInt(Val(Val(report.creditReportData).score).bureauScore)

\* a liability followed by an asset has been answered with the asset alone
C8_Witness ==
    \E r \in DashboardIds :
        /\ Len(reqs[r].batch) = 2 /\ WellFormedPair(reqs[r].batch)
        /\ Val(Val(DocOf(reqs[r].batch[1].data).netWorthResponse).assetValues)
             = <<HomeLoan, Epf>>
        /\ reqs[r].status = 200
        /\ Len(Val(reqs[r].dashboard).assets) = 1
        /\ Val(reqs[r].dashboard).assets[1].value = [nan |-> FALSE, n |-> 21]
        /\ Val(reqs[r].dashboard).creditScore = [nan |-> FALSE, n |-> 47]

\* the request fails one of the ways C9 lists
DashboardFails(r, liabilitiesToo) ==
    /\ ~Falsy(reqs[r].sessionId)
    /\ \/ AnyRejected(reqs[r].batch)
       \/ /\ AllFulfilled(reqs[r].batch)
          /\ \/ NetWorthFieldMissing(reqs[r].batch[1].data, liabilitiesToo)
             \/ CreditFieldMissing(reqs[r].batch[2].data)

\* C9 as stated: a dashboard request with a sessionId of which a relay call
\* fails, or a relay response lacks a field the parsing reads, the value of any
\* entry included, is answered with status 500 and an error body, and no
\* dashboard object.
C9_MissingFieldIs500 ==
    \A r \in DashboardIds :
        DashboardFails(r, TRUE) =>
            /\ reqs[r].status = 500
            /\ reqs[r].error # ""
            /\ ~Has(reqs[r].dashboard)

\* C9 amended: the same, the value of an entry counting only for the entries
\* not tagged as a liability.
C9_MissingFieldReadIs500 ==
    \A r \in DashboardIds :
        DashboardFails(r, FALSE) =>
            /\ reqs[r].status = 500
            /\ reqs[r].error = "Failed to fetch dashboard data."
            /\ ~Has(reqs[r].dashboard)
            /\ reqs[r].responses = 1

\* an asset entry without a value, before a liability, has been answered 500
C9_Witness ==
    \E r \in DashboardIds :
        /\ Len(reqs[r].batch) = 2
        /\ AllFulfilled(reqs[r].batch)
        /\ reqs[r].batch[1].data
             = Body(<<JsonText(NetWorthDoc("171",
                   <<[netWorthAttribute |-> <<"ASSET_TYPE_EPF">>, value |-> <<>>], HomeLoan>>))>>)
        /\ reqs[r].batch[2].data \in WellFormedCredit
        /\ reqs[r].status = 500

\* C10: a dashboard request without a sessionId is answered 400 and issues no
\* relay call; one with a sessionId issues exactly two relay calls, named
\* fetch_net_worth and fetch_credit_report, both carrying the sessionId as the
\* Mcp-Session-Id header; neither issues a model call.
C10_DashboardRelaysTwoFixedTools ==
    \A r \in DashboardIds :
        /\ reqs[r].modelCalls = 0
        /\ reqs[r].chat = 0
        /\ IF Falsy(reqs[r].sessionId)
           THEN /\ reqs[r].status = 400
                /\ reqs[r].relayCalls = 0
                /\ reqs[r].batch = <<>>
           ELSE /\ reqs[r].relayCalls = 2
                /\ Len(reqs[r].batch) = 2
                /\ {reqs[r].batch[i].name : i \in 1..2}
                     = {"fetch_net_worth", "fetch_credit_report"}
                /\ \A i \in 1..2 :
                      /\ reqs[r].batch[i].McpSessionId = reqs[r].sessionId
                      /\ reqs[r].batch[i].method = "tools/call"

\* a dashboard request was answered 400 and another, of session s2, 200
C10_Witness ==
    \E r1, r2 \in DashboardIds :
        /\ reqs[r1].status = 400
        /\ reqs[r2].sessionId = "s2"
        /\ reqs[r2].status = 200

----------------------------------------------------------------------------
(* Properties of the chat loop under concurrency *)

\* some relay call of the batch has not completed
AnyPending(batch) == \E i \in 1..Len(batch) : batch[i].state = "pending"

C12_ResultsKeyedByPosition ==
    \A r \in ChatIds :
        (reqs[r].batches >= 1 /\ reqs[r].modelCalls = reqs[r].batches + 1) =>
            LET requested == LastRequested(reqs[r].exchange)
                entries == reqs[r].sent.functionResponses
            IN  /\ reqs[r].sent.role = "function"
                /\ Len(entries) = Len(requested)
                /\ \A i \in 1..Len(requested) :
                      /\ entries[i].name = requested[i].name
                      /\ reqs[r].batch[i].name = requested[i].name
                      /\ reqs[r].batch[i].state = "ok"
                      /\ entries[i].response = reqs[r].batch[i].data
                      /\ entries[i].response \in SomeToolData(requested[i].name)

\* the model requested two different tools, the relay call of the second
\* completed before that of the first, and the combined reply has been sent
C12_Witness ==
    \E r \in ChatIds :
        /\ reqs[r].batches = 1
        /\ reqs[r].modelCalls = 2
        /\ Len(reqs[r].batch) = 2
        /\ reqs[r].batch[1].name # reqs[r].batch[2].name
        /\ reqs[r].outOfOrder
        /\ reqs[r].sent.role = "function"
        /\ Len(reqs[r].sent.functionResponses) = 2

\* the number of contents the requests have exchanged on chat object c
RECURSIVE Exchanged(_, _)
Exchanged(rs, c) ==
    IF rs = <<>> THEN 0
    ELSE (IF Head(rs).chat = c THEN Len(Head(rs).exchange) ELSE 0) + Exchanged(Tail(rs), c)

\* C13: chat requests with the same sessionId are not mutually excluded.  A
\* request carrying both fields sends its message on the session's chat object
\* on arrival, whatever other requests of the session are suspended on, and
\* is from then on suspended only on its own model call or relay batch; the
\* history of a chat object is an interleaving of the exchanges of the
\* requests that use it.  The interleaving the claim names is C13_Witness.
C13_SameSessionNotExcluded ==
    /\ \A r \in ChatIds :
           BothPresent(r) =>
              /\ reqs[r].modelCalls >= 1
              /\ reqs[r].chat = chatSessions[reqs[r].sessionId]
              /\ reqs[r].responses = 0 => reqs[r].pc \in {"awaitModel", "awaitTools"}
              /\ IsSubsequence(reqs[r].exchange, chats[reqs[r].chat])
    /\ \A c \in 1..Len(chats) : Len(chats[c]) = 1 + Exchanged(reqs, c)

\* the second request's user message has reached the conversation after the
\* first request's tool-call response from the model and before the first
\* request's tool-result reply
C13_Witness ==
    \E r1, r2 \in ChatIds :
        /\ r1 < r2
        /\ reqs[r1].sessionId = reqs[r2].sessionId
        /\ reqs[r1].chat = reqs[r2].chat
        /\ Len(reqs[r1].exchange) >= 4
        /\ reqs[r1].exchange[2].functionCalls # <<>>
        /\ reqs[r1].exchange[3].role = "function"
        /\ Len(reqs[r2].exchange) = 2
        /\ reqs[r2].exchange[1].role = "user"
        /\ Has(reqs[r2].seen)
        /\ Val(reqs[r2].seen) = <<systemInstruction>> \o SubSeq(reqs[r1].exchange, 1, 2)
        /\ chats[reqs[r1].chat]
             = Val(reqs[r2].seen) \o reqs[r2].exchange
                 \o SubSeq(reqs[r1].exchange, 3, Len(reqs[r1].exchange))

----------------------------------------------------------------------------
(* Termination of the chat loop *)

\* request r has arrived and carries both fields
Accepted(r) == r \in ChatIds /\ BothPresent(r)

\* request r has received a response
Responded(r) == r \in 1..Len(reqs) /\ reqs[r].responses = 1

\* a call that request r was waiting for has completed in this step
CallCompleted(r) ==
    \/ reqs[r].pc = "awaitModel" /\ reqs'[r].modelCalls = reqs[r].modelCalls
    \/ \E i \in 1..Len(reqs[r].batch) :
          reqs[r].batch[i].state = "pending" /\ reqs'[r].batch[i].state # "pending"

\* The part of C14 that holds as stated: a chat request carrying both fields
\* is answered eventually when every call it issues completes eventually and
\* the model eventually requests no tool; a response is sent only in a step in
\* which a call the handler awaits completes (there is no timeout); and a
\* response of the model that requests tools starts another batch without a
\* response to the caller, however many batches the request has issued.
C14_AnsweredOnlyByCompletions ==
    /\ \A r \in 1..MaxChats : Accepted(r) ~> Responded(r)
    /\ [][\A r \in 1..Len(reqs) :
             /\ (Accepted(r) /\ reqs'[r].responses # reqs[r].responses) =>
                   (reqs[r].responses = 0 /\ CallCompleted(r))
             /\ (Accepted(r) /\ reqs'[r].batches # reqs[r].batches) =>
                   /\ reqs[r].pc = "awaitModel"
                   /\ reqs'[r].pc = "awaitTools"
                   /\ reqs'[r].responses = 0
                   /\ reqs'[r].modelCalls = reqs'[r].batches]_vars

----------------------------------------------------------------------------
(* Responses *)

\* C15: every request to either endpoint that reaches a response receives
\* exactly one response, with status 200, 400 or 500, and after that response
\* its handler issues no model call and no relay call for it.
C15_ExactlyOneResponse ==
    /\ [](\A r \in 1..Len(reqs) :
            /\ reqs[r].responses \in {0, 1}
            /\ reqs[r].responses = 1 <=> reqs[r].pc = "done"
            /\ reqs[r].responses = 1 <=> reqs[r].status \in {200, 400, 500}
            /\ reqs[r].responses = 0 <=> reqs[r].status = 0)
    /\ [][\A r \in 1..Len(reqs) :
             reqs[r].responses = 1 =>
                /\ reqs'[r].responses = 1
                /\ reqs'[r].status = reqs[r].status
                /\ reqs'[r].reply = reqs[r].reply
                /\ reqs'[r].error = reqs[r].error
                /\ reqs'[r].dashboard = reqs[r].dashboard
                /\ reqs'[r].modelCalls = reqs[r].modelCalls
                /\ reqs'[r].relayCalls = reqs[r].relayCalls
                /\ Len(reqs'[r].batch) = Len(reqs[r].batch)
                /\ reqs'[r].sent = reqs[r].sent]_vars

\* a dashboard request was answered 500 and both its relay calls have
\* completed, and a chat request was answered 200 after a batch of relay calls
C15_Witness ==
    /\ \E r \in DashboardIds :
          /\ reqs[r].status = 500
          /\ reqs[r].responses = 1
          /\ AnyRejected(reqs[r].batch)
          /\ ~AnyPending(reqs[r].batch)
    /\ \E r \in ChatIds :
          /\ reqs[r].status = 200
          /\ reqs[r].responses = 1
          /\ reqs[r].batches = 1

----------------------------------------------------------------------------
(* The relay calls of the chat loop *)

\* C16: every relay call issued by the chat loop has method tools/call, the
\* name of the tool call the model requested, and an empty arguments object,
\* whatever arguments the model's tool-call request carried.
C16_RelayCallsCarryNoArguments ==
    \A r \in ChatIds :
        reqs[r].batches >= 1 =>
            LET requested == LastRequested(reqs[r].exchange)
            IN  /\ Len(reqs[r].batch) = Len(requested)
                /\ \A i \in 1..Len(reqs[r].batch) :
                      /\ reqs[r].batch[i].method = "tools/call"
                      /\ reqs[r].batch[i].name = requested[i].name
                      /\ reqs[r].batch[i].arguments = "{}"
                      /\ reqs[r].batch[i].url = "http://localhost:8080/mcp/stream"

\* the model has requested a tool with arguments that are not empty and the
\* relay call of that request has been issued and answered
C16_Witness ==
    \E r \in ChatIds :
        /\ reqs[r].batches >= 1
        /\ \E i \in 1..Len(reqs[r].batch) :
              /\ LastRequested(reqs[r].exchange)[i].args = "{\"months\": 6}"
              /\ reqs[r].batch[i].name = "fetch_credit_report"
              /\ reqs[r].batch[i].arguments = "{}"
              /\ reqs[r].batch[i].state = "ok"

----------------------------------------------------------------------------
(* The type labels of the dashboard *)

\* the type tags of the entries not tagged as a liability, in order
RECURSIVE KeptTags(_)
KeptTags(entries) ==
    IF entries = <<>> THEN <<>>
    ELSE IF TaggedLiability(Head(entries)) THEN KeptTags(Tail(entries))
    ELSE <<Val(Head(entries).netWorthAttribute)>> \o KeptTags(Tail(entries))

\* t occurs in s at position p
OccursAt(s, t, p) == p + Len(t) - 1 <= Len(s) /\ SubSeq(s, p, p + Len(t) - 1) = t

\* u is s without its prefix t, or s when s does not start with t
IsPrefixStripped(u, s, t) ==
    IF OccursAt(s, t, 1) THEN u = SubSeq(s, Len(t) + 1, Len(s)) ELSE u = s

\* u is s without its first occurrence of t, or s when t does not occur in s
IsFirstRemoved(u, s, t) ==
    IF \E p \in 1..Len(s) : OccursAt(s, t, p)
    THEN \E p \in 1..Len(s) :
            /\ OccursAt(s, t, p)
            /\ \A q \in 1..(p - 1) : ~OccursAt(s, t, q)
            /\ u = SubSeq(s, 1, p - 1) \o SubSeq(s, p + Len(t), Len(s))
    ELSE u = s

\* u is s with its first underscore, if it has one, turned into a space
IsFirstUnderscoreSpaced(u, s) ==
    /\ Len(u) = Len(s)
    /\ \A k \in 1..Len(s) :
          SubSeq(u, k, k) =
             IF /\ SubSeq(s, k, k) = "_"
                /\ \A q \in 1..(k - 1) : SubSeq(s, q, q) # "_"
             THEN " " ELSE SubSeq(s, k, k)

\* the labels of the dashboard a request was answered with, and the type tags
\* of the entries they are the labels of
Labels(r) == [i \in 1..Len(Val(reqs[r].dashboard).assets) |->
                Val(reqs[r].dashboard).assets[i].type]
Tags(r) == KeptTags(Val(Val(DocOf(reqs[r].batch[1].data).netWorthResponse).assetValues))

\* C17 as stated: for every asset entry the dashboard returns, the type label
\* is the entry's type tag with the prefix ASSET_TYPE_ stripped and is
\* otherwise the tag's text unchanged.
C17_LabelIsTagWithoutPrefix ==
    \A r \in DashboardIds :
        reqs[r].status = 200 =>
            /\ Len(Labels(r)) = Len(Tags(r))
            /\ \A i \in 1..Len(Tags(r)) :
                  IsPrefixStripped(Labels(r)[i], Tags(r)[i], "ASSET_TYPE_")

\* C17 amended: for every asset entry the dashboard returns, the type label
\* is the entry's type tag with the first occurrence of ASSET_TYPE_ removed
\* and then the first underscore that remains turned into a space, and is
\* otherwise the tag's text unchanged.
C17_LabelIsTagWithoutPrefixFirstUnderscoreSpaced ==
    \A r \in DashboardIds :
        reqs[r].status = 200 =>
            /\ Len(Labels(r)) = Len(Tags(r))
            /\ \A i \in 1..Len(Tags(r)) :
                  \E k \in 0..Len(Tags(r)[i]) : \E p \in 1..(Len(Tags(r)[i]) + 1) :
                     LET stripped == SubSeq(Tags(r)[i], 1, p - 1)
                                       \o SubSeq(Tags(r)[i], p + k, Len(Tags(r)[i]))
                     IN  /\ IsFirstRemoved(stripped, Tags(r)[i], "ASSET_TYPE_")
                         /\ IsFirstUnderscoreSpaced(Labels(r)[i], stripped)

\* a dashboard has been returned for a tag with two underscores after the
\* prefix and a tag that holds ASSET_TYPE_ after its start
C17_Witness ==
    \E r \in DashboardIds :
        /\ reqs[r].status = 200
        /\ Tags(r) = <<"ASSET_TYPE_A_B_C", "MY_ASSET_TYPE_X">>
        /\ Labels(r) = <<"A B_C", "MY X">>

====
